---- MODULE Spec2Model ----
(***************************************************************************)
(* Model of src/sweeps.py: the faithfulness sweep (relation x trial x      *)
(* layer x beta) with per-relation checkpointing, the result aggregation   *)
(* methods (best / by_layer) and the activation precompute (_precompute_hs).*)
(***************************************************************************)
EXTENDS Integers, Sequences, FiniteSets, TLC

\* ------------------------------------------------------------------ bounds
MaxRel == 2        \* relations in the dataset
MaxSamples == 3    \* samples of one relation
MaxTrain == 2      \* n_train_samples
MaxTrials == 2     \* n_trials
MaxBetas == 3      \* length of a beta grid
MaxLayers == 2     \* length of h_layers
MaxBetaVal == 2    \* largest beta value of a grid
MaxK == 2          \* recall positions (recall@1..recall@MaxK)
MaxRecall == 2     \* recall values are 0..MaxRecall (scaled)
MaxCells == 4      \* BetaResults in one RelationResults given to best / by_layer
MaxSubj == 2       \* distinct subjects
MaxSubjects == 3   \* length of the subject list
MaxBatch == 3      \* batch_size
NumLayers == 2     \* transformer layers of the model

VARIABLES
    \* sweep_faithfulness: arguments
    dataset, h_layers, betas, n_trials, n_train_samples, resume,
    \* the checkpoint store behind results_dir
    store,
    \* sweep_faithfulness: locals and position
    pc, ri, trial, li, bi,
    relation_results, trial_results, layer_results, results_by_beta,
    train_samples, test_samples, operator_bias, bias,
    \* history: store at the start of the run, calls made per relation,
    \* which run this is, and what the first run returned
    store0, calls, run, first_result,
    \* a call of TrainResults.best / RelationResults.by_layer / .best:
    \* the receiver, the arguments and what was returned
    rel, k, called, train_arg, best_beta, summary_by_layer, best_layer,
    \* _precompute_hs: arguments, tokenizer output, locals and position
    subjects, batch_size, padding_side, input_ids, hpc, hi,
    batched_hidden_states, hidden_states, hs_by_subj

sweepVars == << dataset, h_layers, betas, n_trials, n_train_samples, resume,
                store, pc, ri, trial, li, bi,
                relation_results, trial_results, layer_results, results_by_beta,
                train_samples, test_samples, operator_bias, bias,
                store0, calls, run, first_result >>

bestVars == << rel, k, called, train_arg, best_beta, summary_by_layer, best_layer >>

hsVars == << subjects, batch_size, padding_side, input_ids, hpc, hi,
             batched_hidden_states, hidden_states, hs_by_subj >>

vars == << sweepVars, bestVars, hsVars >>

\* ------------------------------------------------------------- helpers
\* Python's None for an optional result: the empty sequence; a present
\* result r is <<r>>
None == <<>>

RECURSIVE SumSeq(_)
SumSeq(s) == IF s = <<>> THEN 0 ELSE Head(s) + SumSeq(Tail(s))

Min(a, b) == IF a <= b THEN a ELSE b

\* all sequences over S of length 0..n
SeqsUpTo(S, n) == UNION { [1..m -> S] : m \in 0..n }

\* the elements of a set of integers in increasing order
RECURSIVE SortedSeq(_)
SortedSeq(S) ==
    IF S = {} THEN <<>>
    ELSE LET m == CHOOSE x \in S : \A y \in S : x <= y
         IN  <<m>> \o SortedSeq(S \ {m})

\* data.Relation: a name, prompt templates and samples (a sample is its id)
Relation(name, n) ==
    [name |-> name, prompt_templates |-> <<"template0", "template1">>,
     samples |-> [i \in 1..n |-> i]]

\* Relation.split(n): a (train, test) partition with exactly n train samples
Splits(relation, n) ==
    { [train |-> SortedSeq(T),
       test  |-> SortedSeq({relation.samples[i] : i \in DOMAIN relation.samples} \ T)] :
      T \in { X \in SUBSET {relation.samples[i] : i \in DOMAIN relation.samples} :
              Cardinality(X) = n } }

\* experiment_utils.load_results_file: the stored result, if resuming and present
LoadResultsFile(st, name, res) ==
    IF res /\ name \in DOMAIN st THEN <<st[name]>> ELSE None

\* experiment_utils.save_results_file: write the result under the relation name
SaveResultsFile(st, name, results) ==
    [n \in DOMAIN st \cup {name} |-> IF n = name THEN results ELSE st[n]]

\* a result left in the store by an earlier sweep (of some other configuration)
OldResult(name) ==
    [relation_name |-> name,
     trials |-> << [prompt_template |-> "template0",
                    train_samples |-> <<1>>,
                    layers |-> << [layer |-> 7,
                                   result |-> [samples |-> <<1>>,
                                               betas |-> << [beta |-> 1,
                                                             recall |-> [i \in 1..MaxK |-> MaxRecall]] >>]] >>] >>]

\* the estimator's fitted operator bias for (train samples, layer): a vector
FitBias(relation, train, h_layer) == << h_layer + 1, SumSeq(train) >>

\* bias * beta, elementwise
Scale(b, beta) == [i \in DOMAIN b |-> b[i] * beta]

\* operator.bias.clone(): a fresh tensor holding the same values
Clone(b) == b

\* the value written by `operator.bias[:] = bias * beta`
ScaledBiasIncremental(savedBias, currentBias, beta) == Scale(currentBias, beta)

ScaledBias(savedBias, currentBias, beta) == Scale(savedBias, beta)

\* metrics.recall over the operator's predictions for the test samples:
\* recall@1..recall@MaxK, non-decreasing in the position
Recall(opBias, h_layer, test) ==
    LET base == (SumSeq(opBias) + h_layer + SumSeq(test)) % (MaxRecall + 1)
    IN  [i \in 1..MaxK |-> Min(base + i - 1, MaxRecall)]

\* ------------------------------------------------- result record methods
\* metrics.AggregateMetric.aggregate: the values and their mean (sum / n)
Aggregate(values) == [values |-> values, sum |-> SumSeq(values), n |-> Len(values)]

\* mean of a > mean of b
MeanGreater(a, b) == a.sum * b.n > b.sum * a.n

\* Python's max(..., key=...): scanning from position i with the best so far,
\* the position of the first element whose key (a fraction sum / n) none exceeds
RECURSIVE FirstMax(_, _, _)
FirstMax(keys, i, best) ==
    IF i > Len(keys) THEN best
    ELSE FirstMax(keys, i + 1, IF MeanGreater(keys[i], keys[best]) THEN i ELSE best)

\* SweepFaithfulnessTrainResults.best(k): max() of an empty list raises
TrainBestRaises(train_result) == train_result.betas = <<>>

TrainBestLast(train_result, kk) ==
    LET bs == train_result.betas
        j == CHOOSE x \in DOMAIN bs :
                /\ \A i \in DOMAIN bs : bs[i].recall[kk] <= bs[x].recall[kk]
                /\ \A i \in DOMAIN bs : i > x => bs[i].recall[kk] < bs[x].recall[kk]
    IN  bs[j]

\* SweepFaithfulnessTrainResults.best(k)
TrainBest(train_result, kk) ==
    LET bs == train_result.betas
        keys == [i \in DOMAIN bs |-> [sum |-> bs[i].recall[kk], n |-> 1]]
    IN  bs[FirstMax(keys, 2, 1)]

RECURSIVE ConcatAll(_)
ConcatAll(ss) == IF ss = <<>> THEN <<>> ELSE Head(ss) \o ConcatAll(Tail(ss))

\* the keys of a dict in insertion order
RECURSIVE Dedup(_)
Dedup(s) ==
    IF s = <<>> THEN <<>>
    ELSE LET rest == Dedup(SubSeq(s, 1, Len(s) - 1))
         IN  IF \E i \in 1..(Len(s) - 1) : s[i] = s[Len(s)] THEN rest
             ELSE Append(rest, s[Len(s)])

\* by_layer line 76: the recall position given to layer.result.best()
ByLayerBestK(kk) == 1

\* by_layer line 73-83: (layer, best.beta, best.recall[k - 1]) of every
\* layer of every trial
LayerEntries(relres, kk) ==
    ConcatAll([t \in DOMAIN relres.trials |->
        [l \in DOMAIN relres.trials[t].layers |->
            LET layer == relres.trials[t].layers[l]
                best == TrainBest(layer.result, ByLayerBestK(kk))
            IN  << layer.layer, best.beta, best.recall[kk] >>]])

\* SweepFaithfulnessRelationResults.by_layer(k): the summaries, in the
\* order of the returned dict
ByLayer(relres, kk) ==
    LET entries == LayerEntries(relres, kk)
        keys == Dedup([i \in DOMAIN entries |-> entries[i][1]])
    IN  [j \in DOMAIN keys |->
            LET OfLayer(e) == e[1] = keys[j]
                results == SelectSeq(entries, OfLayer)
            IN  [layer |-> keys[j],
                 beta |-> Aggregate([i \in DOMAIN results |-> results[i][2]]),
                 recall |-> Aggregate([i \in DOMAIN results |-> results[i][3]])]]

\* best line 104: the recall position given to self.by_layer()
BestByLayerK(kk) == 1

\* SweepFaithfulnessRelationResults.best(k): max() of an empty dict raises
RelBestRaises(relres, kk) == ByLayer(relres, BestByLayerK(kk)) = <<>>

\* SweepFaithfulnessRelationResults.best(k)
RelBest(relres, kk) ==
    LET results_by_layer == ByLayer(relres, BestByLayerK(kk))
        keys == [j \in DOMAIN results_by_layer |-> results_by_layer[j].recall]
    IN  results_by_layer[FirstMax(keys, 2, 1)]

\* ------------------------------------------------------------- the sweep
\* line 156: `if relation_result is not None`
UseCheckpointNever(relation_result) == FALSE

UseCheckpoint(relation_result) == relation_result # None

\* line 167: `if len(relation.samples) <= n_train_samples`
NotEnoughSamplesStrict(rel_, n) == Len(rel_.samples) < n

NotEnoughSamples(rel_, n) == Len(rel_.samples) <= n

\* line 254: `name=relation.name`, the key the result is saved under
SaveNameFixed(rel_) == 1

SaveName(rel_) == rel_.name

\* line 217: `results_by_beta = []` at the start of every layer
NewResultsByBetaKept(previous) == previous

NewResultsByBeta(previous) == <<>>

ZeroCalls == [split |-> 0, precompute |-> 0, fit |-> 0, save |-> 0, skip |-> 0]

Bump(c, j, field) == [c EXCEPT ![j] = [@ EXCEPT ![field] = @ + 1]]

relation == dataset[ri]

InitSweep(datasets, trialCounts, trainCounts, layerLists, betaGrids, resumes) ==
    /\ dataset \in datasets
    /\ n_trials \in trialCounts
    /\ n_train_samples \in trainCounts
    /\ h_layers \in layerLists
    /\ betas \in betaGrids
    /\ resume \in resumes
    /\ \E S \in SUBSET { dataset[j].name : j \in DOMAIN dataset } :
          store = [n \in S |-> OldResult(n)]
    /\ store0 = store
    /\ pc = "relation"
    /\ ri = 1
    /\ trial = 0
    /\ li = 0
    /\ bi = 0
    /\ relation_results = <<>>
    /\ trial_results = <<>>
    /\ layer_results = <<>>
    /\ results_by_beta = <<>>
    /\ train_samples = <<>>
    /\ test_samples = <<>>
    /\ operator_bias = <<>>
    /\ bias = <<>>
    /\ calls = [j \in DOMAIN dataset |-> ZeroCalls]
    /\ run = 1
    /\ first_result = None

\* datasets of n relations named 1..n, each with 1..MaxSamples samples
Datasets(maxRel) ==
    UNION { { [j \in 1..n |-> Relation(j, c[j])] : c \in [1..n -> 1..MaxSamples] } :
            n \in 0..maxRel }

\* no call of a result method is in progress
BestIdle ==
    /\ rel = [relation_name |-> 0, trials |-> <<>>]
    /\ k = 1
    /\ called = "none"
    /\ train_arg = <<>>
    /\ best_beta = <<>>
    /\ summary_by_layer = <<>>
    /\ best_layer = <<>>

\* no call of _precompute_hs is in progress
HsIdle ==
    /\ subjects = <<>>
    /\ batch_size = 1
    /\ padding_side = "left"
    /\ input_ids = <<>>
    /\ hpc = "idle"
    /\ hi = 0
    /\ batched_hidden_states = <<>>
    /\ hidden_states = <<>>
    /\ hs_by_subj = <<>>

\* no sweep is in progress
SweepIdle == InitSweep({ <<>> }, {0}, {1}, { <<>> }, { <<>> }, {FALSE})

\* the layer lists of the sweep: none, or MaxLayers layers in descending order
LayerLists == { <<>>, [i \in 1..MaxLayers |-> MaxLayers - i] }

\* the beta grids of the sweep: none, or the grid 0, MaxBetaVal
BetaGrids == { <<>>, <<0, MaxBetaVal>> }

Init ==
    /\ InitSweep(Datasets(MaxRel), 0..MaxTrials, 1..MaxTrain,
                 LayerLists, BetaGrids, BOOLEAN)
    /\ BestIdle
    /\ HsIdle

\* one relation, one trial, one layer: every beta grid
InitBeta ==
    /\ InitSweep(Datasets(1), {1}, {1}, { <<0>> },
                 SeqsUpTo(0..MaxBetaVal, MaxBetas), BOOLEAN)
    /\ BestIdle
    /\ HsIdle

\* line 150-159: a checkpoint exists and resume is set: use it verbatim
LoadCheckpoint ==
    /\ pc = "relation"
    /\ ri <= Len(dataset)
    /\ LET relation_result == LoadResultsFile(store, relation.name, resume)
       IN  /\ UseCheckpoint(relation_result)
           /\ relation_results' = Append(relation_results, relation_result[1])
    /\ ri' = ri + 1
    /\ UNCHANGED << dataset, h_layers, betas, n_trials, n_train_samples, resume,
                    store, pc, trial, li, bi, trial_results, layer_results,
                    results_by_beta, train_samples, test_samples, operator_bias,
                    bias, store0, calls, run, first_result >>
    /\ UNCHANGED << bestVars, hsVars >>

\* line 150-163: no checkpoint is used: start the trial loop
StartRelation ==
    /\ pc = "relation"
    /\ ri <= Len(dataset)
    /\ ~ UseCheckpoint(LoadResultsFile(store, relation.name, resume))
    /\ trial_results' = <<>>
    /\ trial' = 0
    /\ pc' = "trial"
    /\ UNCHANGED << dataset, h_layers, betas, n_trials, n_train_samples, resume,
                    store, ri, li, bi, relation_results, layer_results,
                    results_by_beta, train_samples, test_samples, operator_bias,
                    bias, store0, calls, run, first_result >>
    /\ UNCHANGED << bestVars, hsVars >>

\* line 164-173: not enough samples: warn and go to the next trial
SkipTrial ==
    /\ pc = "trial"
    /\ trial < n_trials
    /\ NotEnoughSamples(relation, n_train_samples)
    /\ trial' = trial + 1
    /\ calls' = Bump(calls, ri, "skip")
    /\ UNCHANGED << dataset, h_layers, betas, n_trials, n_train_samples, resume,
                    store, pc, ri, li, bi, relation_results, trial_results,
                    layer_results, results_by_beta, train_samples, test_samples,
                    operator_bias, bias, store0, run, first_result >>
    /\ UNCHANGED << bestVars, hsVars >>

\* line 177-195: split, precompute the hidden states, start the layer loop
BeginTrial ==
    /\ pc = "trial"
    /\ trial < n_trials
    /\ ~ NotEnoughSamples(relation, n_train_samples)
    /\ \E sp \in Splits(relation, n_train_samples) :
          /\ train_samples' = sp.train
          /\ test_samples' = sp.test
    /\ calls' = Bump(Bump(calls, ri, "split"), ri, "precompute")
    /\ layer_results' = <<>>
    /\ li' = 1
    /\ pc' = "layer"
    /\ UNCHANGED << dataset, h_layers, betas, n_trials, n_train_samples, resume,
                    store, ri, trial, bi, relation_results, trial_results,
                    results_by_beta, operator_bias, bias, store0, run,
                    first_result >>
    /\ UNCHANGED << bestVars, hsVars >>

\* line 196-218: fit the operator of the layer and clone its bias
FitLayer ==
    /\ pc = "layer"
    /\ li <= Len(h_layers)
    /\ operator_bias' = FitBias(relation, train_samples, h_layers[li])
    /\ bias' = Clone(operator_bias')
    /\ calls' = Bump(calls, ri, "fit")
    /\ results_by_beta' = NewResultsByBeta(results_by_beta)
    /\ bi' = 1
    /\ pc' = "beta"
    /\ UNCHANGED << dataset, h_layers, betas, n_trials, n_train_samples, resume,
                    store, ri, trial, li, relation_results, trial_results,
                    layer_results, train_samples, test_samples, store0, run,
                    first_result >>
    /\ UNCHANGED << bestVars, hsVars >>

\* line 219-231: one beta of the grid: rescale the bias, predict, score
EvalBeta ==
    /\ pc = "beta"
    /\ bi <= Len(betas)
    /\ operator_bias' = ScaledBias(bias, operator_bias, betas[bi])
    /\ results_by_beta' =
          Append(results_by_beta,
                 [beta |-> betas[bi],
                  recall |-> Recall(operator_bias', h_layers[li], test_samples)])
    /\ bi' = bi + 1
    /\ UNCHANGED << dataset, h_layers, betas, n_trials, n_train_samples, resume,
                    store, pc, ri, trial, li, relation_results, trial_results,
                    layer_results, train_samples, test_samples, bias, store0,
                    calls, run, first_result >>
    /\ UNCHANGED << bestVars, hsVars >>

\* line 233-239: the layer's TrainResults, summarised and appended
EndLayer ==
    /\ pc = "beta"
    /\ bi > Len(betas)
    /\ LET train_result == [samples |-> train_samples, betas |-> results_by_beta]
       IN  /\ ~ TrainBestRaises(train_result)
           /\ layer_results' =
                 Append(layer_results, [layer |-> h_layers[li], result |-> train_result])
    /\ li' = li + 1
    /\ pc' = "layer"
    /\ UNCHANGED << dataset, h_layers, betas, n_trials, n_train_samples, resume,
                    store, ri, trial, bi, relation_results, trial_results,
                    results_by_beta, train_samples, test_samples, operator_bias,
                    bias, store0, calls, run, first_result >>
    /\ UNCHANGED << bestVars, hsVars >>

EndTrialCheckpointing ==
    /\ pc = "layer"
    /\ li > Len(h_layers)
    /\ trial_results' =
          Append(trial_results,
                 [prompt_template |-> relation.prompt_templates[1],
                  train_samples |-> train_samples,
                  layers |-> layer_results])
    /\ store' = SaveResultsFile(store, relation.name,
                                [relation_name |-> relation.name, trials |-> trial_results'])
    /\ trial' = trial + 1
    /\ pc' = "trial"
    /\ UNCHANGED << dataset, h_layers, betas, n_trials, n_train_samples, resume,
                    ri, li, bi, relation_results, layer_results,
                    results_by_beta, train_samples, test_samples, operator_bias,
                    bias, store0, calls, run, first_result >>
    /\ UNCHANGED << bestVars, hsVars >>

\* line 240-246: the trial's result is appended
EndTrial ==
    /\ pc = "layer"
    /\ li > Len(h_layers)
    /\ trial_results' =
          Append(trial_results,
                 [prompt_template |-> relation.prompt_templates[1],
                  train_samples |-> train_samples,
                  layers |-> layer_results])
    /\ trial' = trial + 1
    /\ pc' = "trial"
    /\ UNCHANGED << dataset, h_layers, betas, n_trials, n_train_samples, resume,
                    store, ri, li, bi, relation_results, layer_results,
                    results_by_beta, train_samples, test_samples, operator_bias,
                    bias, store0, calls, run, first_result >>
    /\ UNCHANGED << bestVars, hsVars >>

\* line 247-256: build the relation's result, save it, append it
SaveRelation ==
    /\ pc = "trial"
    /\ ~ (trial < n_trials)
    /\ LET relation_result == [relation_name |-> relation.name, trials |-> trial_results]
       IN  /\ store' = SaveResultsFile(store, SaveName(relation), relation_result)
           /\ relation_results' = Append(relation_results, relation_result)
    /\ calls' = Bump(calls, ri, "save")
    /\ ri' = ri + 1
    /\ pc' = "relation"
    /\ UNCHANGED << dataset, h_layers, betas, n_trials, n_train_samples, resume,
                    trial, li, bi, trial_results, layer_results, results_by_beta,
                    train_samples, test_samples, operator_bias, bias, store0, run,
                    first_result >>
    /\ UNCHANGED << bestVars, hsVars >>

\* line 257: all relations done: return the SweepResult
Return ==
    /\ pc = "relation"
    /\ ri > Len(dataset)
    /\ pc' = "done"
    /\ UNCHANGED << dataset, h_layers, betas, n_trials, n_train_samples, resume,
                    store, ri, trial, li, bi, relation_results, trial_results,
                    layer_results, results_by_beta, train_samples, test_samples,
                    operator_bias, bias, store0, calls, run, first_result >>
    /\ UNCHANGED << bestVars, hsVars >>

Abort ==
    /\ pc' = "aborted"
    /\ UNCHANGED << dataset, h_layers, betas, n_trials, n_train_samples, resume,
                    store, ri, trial, li, bi, relation_results, trial_results,
                    layer_results, results_by_beta, train_samples, test_samples,
                    operator_bias, bias, store0, run, first_result >>
    /\ UNCHANGED << bestVars, hsVars >>

\* line 150: load_results_file raises
FailLoad ==
    /\ pc = "relation"
    /\ ri <= Len(dataset)
    /\ UNCHANGED calls
    /\ Abort

\* line 187-193: _precompute_hs raises (inference or token-range lookup),
\* after the split was drawn
FailPrecompute ==
    /\ pc = "trial"
    /\ trial < n_trials
    /\ ~ NotEnoughSamples(relation, n_train_samples)
    /\ calls' = Bump(Bump(calls, ri, "split"), ri, "precompute")
    /\ Abort

\* line 199-209: the estimator raises, or the operator has no bias
FailFit ==
    /\ pc = "layer"
    /\ li <= Len(h_layers)
    /\ calls' = Bump(calls, ri, "fit")
    /\ Abort

\* line 224-227: the operator call or the recall metric raises
FailPredict ==
    /\ pc = "beta"
    /\ bi <= Len(betas)
    /\ UNCHANGED calls
    /\ Abort

\* line 236: summarize() takes max() of an empty beta list
FailSummarize ==
    /\ pc = "beta"
    /\ bi > Len(betas)
    /\ TrainBestRaises([samples |-> train_samples, betas |-> results_by_beta])
    /\ UNCHANGED calls
    /\ Abort

\* line 251: save_results_file raises, nothing is written
FailSave ==
    /\ pc = "trial"
    /\ ~ (trial < n_trials)
    /\ calls' = Bump(calls, ri, "save")
    /\ Abort

\* the caller runs the sweep again on the same store, with resume=True
SecondRun ==
    /\ pc = "done"
    /\ run = 1
    /\ run' = 2
    /\ first_result' = relation_results
    /\ resume' = TRUE
    /\ store0' = store
    /\ calls' = [j \in DOMAIN dataset |-> ZeroCalls]
    /\ relation_results' = <<>>
    /\ ri' = 1
    /\ pc' = "relation"
    /\ UNCHANGED << dataset, h_layers, betas, n_trials, n_train_samples, store,
                    trial, li, bi, trial_results, layer_results, results_by_beta,
                    train_samples, test_samples, operator_bias, bias >>
    /\ UNCHANGED << bestVars, hsVars >>

Next ==
    \/ LoadCheckpoint
    \/ StartRelation
    \/ SkipTrial
    \/ BeginTrial
    \/ FitLayer
    \/ EvalBeta
    \/ EndLayer
    \/ EndTrial
    \/ SaveRelation
    \/ Return
    \/ FailLoad
    \/ FailPrecompute
    \/ FailFit
    \/ FailPredict
    \/ FailSummarize
    \/ FailSave
    \/ SecondRun

Spec == Init /\ [][Next]_vars

SpecBeta == InitBeta /\ [][Next]_vars

\* ------------------------------------------- calls of the result methods
\* recall@1..recall@MaxK of one BetaResults: non-decreasing in the position
RecallVecs ==
    { v \in [1..MaxK -> 0..MaxRecall] : \A i \in 1..(MaxK - 1) : v[i] <= v[i + 1] }

\* the RelationResults a sweep of nT trials, nL layers and nB betas returns
\* when its recalls are those of tab
RelationResultsOf(nT, nL, nB, tab) ==
    [relation_name |-> 1,
     trials |-> [t \in 1..nT |->
        [prompt_template |-> "template0",
         train_samples |-> <<1>>,
         layers |-> [l \in 1..nL |->
            [layer |-> l - 1,
             result |-> [samples |-> <<1>>,
                         betas |-> [b \in 1..nB |->
                                      [beta |-> b - 1, recall |-> tab[t][l][b]]]]]]]]]

RelationResultsInputs ==
    UNION { { RelationResultsOf(d[1], d[2], d[3], tab) :
                tab \in [1..d[1] -> [1..d[2] -> [1..d[3] -> RecallVecs]]] } :
            d \in { e \in (0..MaxTrials) \X (1..MaxLayers) \X (1..MaxBetas) :
                      e[1] * e[2] * e[3] <= MaxCells } }

InitBest ==
    /\ rel \in RelationResultsInputs
    /\ k \in 1..MaxK
    /\ called = "none"
    /\ train_arg = <<>>
    /\ best_beta = <<>>
    /\ summary_by_layer = <<>>
    /\ best_layer = <<>>
    /\ SweepIdle
    /\ HsIdle

\* train_result.best(k) on one of the TrainResults of rel
CallTrainBest ==
    /\ called = "none"
    /\ \E t \in DOMAIN rel.trials : \E l \in DOMAIN rel.trials[t].layers :
          /\ ~ TrainBestRaises(rel.trials[t].layers[l].result)
          /\ train_arg' = rel.trials[t].layers[l].result
          /\ best_beta' = TrainBest(train_arg', k)
    /\ called' = "TrainBest"
    /\ UNCHANGED << rel, k, summary_by_layer, best_layer, sweepVars, hsVars >>

\* rel.by_layer(k)
CallByLayer ==
    /\ called = "none"
    /\ summary_by_layer' = ByLayer(rel, k)
    /\ called' = "by_layer"
    /\ UNCHANGED << rel, k, train_arg, best_beta, best_layer, sweepVars, hsVars >>

\* rel.best(k)
CallBest ==
    /\ called = "none"
    /\ ~ RelBestRaises(rel, k)
    /\ best_layer' = RelBest(rel, k)
    /\ called' = "best"
    /\ UNCHANGED << rel, k, train_arg, best_beta, summary_by_layer, sweepVars, hsVars >>

\* rel.best(k) when no trial has a layer: max() raises ValueError
CallBestRaises ==
    /\ called = "none"
    /\ RelBestRaises(rel, k)
    /\ called' = "best_raised"
    /\ UNCHANGED << rel, k, train_arg, best_beta, summary_by_layer, best_layer,
                    sweepVars, hsVars >>

NextBest ==
    \/ CallTrainBest
    \/ CallByLayer
    \/ CallBest
    \/ CallBestRaises

SpecBest == InitBest /\ [][NextBest]_vars

\* ------------------------------------------------------- _precompute_hs
PadToken == 0

\* functional.make_prompt: the prompt of a subject, as tokens: a prefix
\* token, the subject's own tokens (subject s has s of them), a suffix token
Prompt(subject) == <<1>> \o [j \in 1..subject |-> 10 + subject] \o <<2>>

Max(a, b) == IF a >= b THEN a ELSE b

RECURSIVE Longest(_)
Longest(prompts) ==
    IF prompts = <<>> THEN 0 ELSE Max(Len(Head(prompts)), Longest(Tail(prompts)))

\* pad tokens before row i (padding="longest" on the tokenizer's padding side)
PadBefore(prompts, side, i) ==
    IF side = "left" THEN Longest(prompts) - Len(prompts[i]) ELSE 0

\* mt.tokenizer(prompts, padding="longest"): input_ids, one row per prompt
Tokenize(prompts, side) ==
    [i \in DOMAIN prompts |->
        LET pad == [j \in 1..(Longest(prompts) - Len(prompts[i])) |-> PadToken]
        IN  IF side = "left" THEN pad \o prompts[i] ELSE prompts[i] \o pad]

\* tokenizer_utils.find_token_range(prompt, subject, offset_mapping[i]):
\* the token range of the subject in row i, 0-based, end exclusive
FindTokenRange(subject, padBefore) == << padBefore + 1, padBefore + 1 + subject >>

\* mt.model(rows, output_hidden_states=True).hidden_states, stacked: for the
\* embeddings (first) and each of the NumLayers layers, for each row, for
\* each position, the hidden state (a function of layer, row and position)
Forward(rows) ==
    [l \in 1..(NumLayers + 1) |->
        [r \in DOMAIN rows |-> [p \in DOMAIN rows[r] |-> << l - 1, rows[r], p >>]]]

\* inputs.input_ids[i : i + batch_size], i 0-based
Slice(rows, i, size) == SubSeq(rows, i + 1, Min(i + size, Len(rows)))

\* the next start of range(0, len(input_ids), batch_size)
NextStart(i, size) == i + size

RECURSIVE CatReversed(_)
CatReversed(batches) ==
    IF Len(batches) = 1 THEN batches[1]
    ELSE LET front == CatReversed(SubSeq(batches, 1, Len(batches) - 1))
             last == batches[Len(batches)]
         IN  [l \in DOMAIN last |-> last[l] \o front[l]]

\* torch.cat(batches, dim=1): per layer, the rows of the batches in list order
RECURSIVE Cat(_)
Cat(batches) ==
    IF Len(batches) = 1 THEN batches[1]
    ELSE LET front == Cat(SubSeq(batches, 1, Len(batches) - 1))
             last == batches[Len(batches)]
         IN  [l \in DOMAIN last |-> front[l] \o last[l]]

prompts == [i \in DOMAIN subjects |-> Prompt(subjects[i])]

InitHs ==
    /\ subjects \in SeqsUpTo(1..MaxSubj, MaxSubjects)
    /\ batch_size \in 1..MaxBatch
    /\ padding_side \in {"left", "right"}
    /\ input_ids = <<>>
    /\ hpc = "start"
    /\ hi = 0
    /\ batched_hidden_states = <<>>
    /\ hidden_states = <<>>
    /\ hs_by_subj = <<>>
    /\ SweepIdle
    /\ BestIdle

\* line 269-286: render and tokenize the prompts
HsTokenize ==
    /\ hpc = "start"
    /\ input_ids' = Tokenize(prompts, padding_side)
    /\ batched_hidden_states' = <<>>
    /\ hi' = 0
    /\ hpc' = "batch"
    /\ UNCHANGED << subjects, batch_size, padding_side, hidden_states, hs_by_subj,
                    sweepVars, bestVars >>

\* line 287-295: one batch through the model, embeddings dropped
HsBatch ==
    /\ hpc = "batch"
    /\ hi < Len(input_ids)
    /\ LET outputs == Forward(Slice(input_ids, hi, batch_size))
       IN  batched_hidden_states' = Append(batched_hidden_states, Tail(outputs))
    /\ hi' = NextStart(hi, batch_size)
    /\ UNCHANGED << subjects, batch_size, padding_side, input_ids, hpc,
                    hidden_states, hs_by_subj, sweepVars, bestVars >>

\* line 296-298: concatenate the batches
HsCat ==
    /\ hpc = "batch"
    /\ ~ (hi < Len(input_ids))
    /\ batched_hidden_states # <<>>
    /\ hidden_states' = Cat(batched_hidden_states)
    /\ hs_by_subj' = <<>>
    /\ hi' = 0
    /\ hpc' = "index"
    /\ UNCHANGED << subjects, batch_size, padding_side, input_ids,
                    batched_hidden_states, sweepVars, bestVars >>

\* line 296: torch.cat of an empty list raises
HsCatRaises ==
    /\ hpc = "batch"
    /\ ~ (hi < Len(input_ids))
    /\ batched_hidden_states = <<>>
    /\ hpc' = "raised"
    /\ UNCHANGED << subjects, batch_size, padding_side, input_ids, hi,
                    batched_hidden_states, hidden_states, hs_by_subj,
                    sweepVars, bestVars >>

\* line 299-304: the hidden states of subject i at its last token
HsIndex ==
    /\ hpc = "index"
    /\ hi < Len(subjects)
    /\ LET subject == subjects[hi + 1]
           range == FindTokenRange(subject, PadBefore(prompts, padding_side, hi + 1))
           h_index == range[2] - 1
           h == [l \in DOMAIN hidden_states |-> hidden_states[l][hi + 1][h_index + 1]]
       IN  hs_by_subj' = [s \in DOMAIN hs_by_subj \cup {subject} |->
                             IF s = subject THEN h ELSE hs_by_subj[s]]
    /\ hi' = hi + 1
    /\ UNCHANGED << subjects, batch_size, padding_side, input_ids, hpc,
                    batched_hidden_states, hidden_states, sweepVars, bestVars >>

\* line 300: find_token_range raises (the subject is not found in the prompt)
HsLookupRaises ==
    /\ hpc = "index"
    /\ hi < Len(subjects)
    /\ hpc' = "raised"
    /\ UNCHANGED << subjects, batch_size, padding_side, input_ids, hi,
                    batched_hidden_states, hidden_states, hs_by_subj,
                    sweepVars, bestVars >>

\* line 306
HsReturn ==
    /\ hpc = "index"
    /\ ~ (hi < Len(subjects))
    /\ hpc' = "done"
    /\ UNCHANGED << subjects, batch_size, padding_side, input_ids, hi,
                    batched_hidden_states, hidden_states, hs_by_subj,
                    sweepVars, bestVars >>

NextHs ==
    \/ HsTokenize
    \/ HsBatch
    \/ HsCat
    \/ HsCatRaises
    \/ HsIndex
    \/ HsLookupRaises
    \/ HsReturn

SpecHs == InitHs /\ [][NextHs]_vars

\* ------------------------------------------------------------ properties
Few(j) == Len(dataset[j].samples) <= n_train_samples

Name(j) == dataset[j].name

\* the checkpoint of relation j is as it was when the run started
Untouched(j) ==
    /\ (Name(j) \in DOMAIN store) = (Name(j) \in DOMAIN store0)
    /\ Name(j) \in DOMAIN store => store[Name(j)] = store0[Name(j)]

\* relation j was computed by this run (not loaded) and appended
Computed(j) == j <= Len(relation_results) /\ calls[j].save = 1

\* C1: resume idempotence. In a second run with resume=true on the store the
\* first run left, no relation is split, precomputed, fitted or saved, and
\* the SweepResult returned equals the one the first run returned.
C1_ResumeIdempotent ==
    run = 2 =>
        /\ \A j \in DOMAIN dataset : calls[j] = ZeroCalls
        /\ store = store0
        /\ pc = "done" => relation_results = first_result

C1_Witness ==
    /\ run = 2
    /\ pc = "done"
    /\ Len(relation_results) = 2
    /\ Len(relation_results[1].trials) = 2
    /\ relation_results[1].trials[1].layers # <<>>
    /\ relation_results[1] # OldResult(Name(1))
    /\ relation_results[2] # OldResult(Name(2))

\* C2: RelationResults.best(k) returns the by_layer(k) summary of the layer
\* whose mean recall@k across trials is maximal, for the k passed in.
C2_BestRanksByRecallAtK ==
    called = "best" =>
        \E j \in DOMAIN ByLayer(rel, k) :
            /\ best_layer = ByLayer(rel, k)[j]
            /\ \A i \in DOMAIN ByLayer(rel, k) :
                  ~ MeanGreater(ByLayer(rel, k)[i].recall, best_layer.recall)

\* C3: TrainResults.best(k) returns a BetaResults of the list whose recall@k
\* is maximal, and the first such in list order.
C3_TrainBestFirstMax ==
    called = "TrainBest" =>
        \E j \in DOMAIN train_arg.betas :
            /\ best_beta = train_arg.betas[j]
            /\ \A i \in DOMAIN train_arg.betas :
                  train_arg.betas[i].recall[k] <= best_beta.recall[k]
            /\ \A i \in 1..(j - 1) :
                  train_arg.betas[i].recall[k] < best_beta.recall[k]

C3_Witness ==
    /\ called = "TrainBest"
    /\ k = MaxK
    /\ Len(train_arg.betas) >= 2
    /\ best_beta = train_arg.betas[1]
    /\ train_arg.betas[2].recall[k] = best_beta.recall[k]
    /\ train_arg.betas[2].recall[1] > best_beta.recall[1]

\* C4: within a layer, after the beta at any grid position was applied the
\* operator bias is the fitted bias times that beta, whatever came before,
\* and the saved clone still is the fitted bias.
C4_BiasRescaledFromOriginal ==
    pc = "beta" =>
        LET fitted == FitBias(relation, train_samples, h_layers[li])
        IN  /\ bias = fitted
            /\ bi = 1 => operator_bias = fitted
            /\ bi > 1 => operator_bias = Scale(fitted, betas[bi - 1])

C4_Witness ==
    /\ pc = "beta"
    /\ bi = 3
    /\ betas[1] = 0
    /\ betas[2] = MaxBetaVal
    /\ operator_bias # Scale(operator_bias, 0)

\* C5: a relation with <= n_train_samples samples has every trial skipped:
\* no split, precompute or fit, no TrialResult recorded, no failure inside
\* its trial loop, and the sweep goes on; otherwise no trial is skipped.
C5_SkipWhenTooFewSamples ==
    \A j \in DOMAIN dataset :
        IF Few(j)
        THEN /\ calls[j].split = 0 /\ calls[j].precompute = 0 /\ calls[j].fit = 0
             /\ (j = ri /\ pc = "trial") => (trial_results = <<>> /\ calls[j].skip = trial)
             /\ (j = ri /\ pc = "aborted") =>
                   \/ calls[j].skip = 0 /\ calls[j].save = 0
                   \/ calls[j].skip = n_trials /\ calls[j].save = 1
             /\ Computed(j) => (relation_results[j].trials = <<>> /\ calls[j].skip = n_trials)
        ELSE calls[j].skip = 0

C5_Witness ==
    /\ pc = "done"
    /\ run = 1
    /\ n_trials = 2
    /\ Len(dataset) = 2
    /\ Few(1)
    /\ Computed(1)
    /\ calls[1].skip = 2
    /\ calls[2].split = 2

\* C6: with resume=true, the results are one per relation in dataset order;
\* a relation whose checkpoint existed gets the stored result verbatim, with
\* nothing computed and its checkpoint not rewritten; any other relation is
\* computed in full, saved, and appended before the next relation starts.
C6_ResumeUsesCheckpoints ==
    resume =>
        /\ Len(relation_results) = ri - 1
        /\ pc = "done" => Len(relation_results) = Len(dataset)
        /\ \A j \in DOMAIN dataset :
              /\ j < ri /\ Name(j) \in DOMAIN store0 =>
                    /\ relation_results[j] = store0[Name(j)]
                    /\ Untouched(j)
                    /\ calls[j] = ZeroCalls
              /\ j < ri /\ Name(j) \notin DOMAIN store0 =>
                    /\ relation_results[j].relation_name = Name(j)
                    /\ Name(j) \in DOMAIN store
                    /\ Name(j) \in DOMAIN store => store[Name(j)] = relation_results[j]
                    /\ calls[j].save = 1
                    /\ calls[j].split = (IF Few(j) THEN 0 ELSE n_trials)
                    /\ calls[j].fit = (IF Few(j) THEN 0 ELSE n_trials * Len(h_layers))
                    /\ calls[j].skip = (IF Few(j) THEN n_trials ELSE 0)
              /\ j > ri => calls[j] = ZeroCalls /\ Untouched(j)

C6_Witness ==
    /\ resume
    /\ run = 1
    /\ pc = "done"
    /\ Len(dataset) = 2
    /\ Name(1) \notin DOMAIN store0
    /\ Name(2) \in DOMAIN store0
    /\ calls[1].fit = 2 * MaxLayers
    /\ relation_results[2] = OldResult(Name(2))

ClaimedBests(relres, kk, layer) ==
    LET Has(t) == \E l \in DOMAIN relres.trials[t].layers :
                      relres.trials[t].layers[l].layer = layer
        ts == SelectSeq([t \in DOMAIN relres.trials |-> t], Has)
    IN  [i \in DOMAIN ts |->
            LET ls == relres.trials[ts[i]].layers
                l == CHOOSE x \in DOMAIN ls : ls[x].layer = layer
            IN  TrainBest(ls[l].result, kk)]

\* C9: by_layer(k) returns one summary per layer occurring in any trial; its
\* beta values are the betas best by recall@k in each trial, its recall
\* values those betas' recall@k.
C9_ByLayerBestAtK ==
    called = "by_layer" =>
        LET layers == UNION { { rel.trials[t].layers[l].layer :
                                  l \in DOMAIN rel.trials[t].layers } :
                              t \in DOMAIN rel.trials }
        IN  /\ { summary_by_layer[j].layer : j \in DOMAIN summary_by_layer } = layers
            /\ \A j \in DOMAIN summary_by_layer :
                  LET bests == ClaimedBests(rel, k, summary_by_layer[j].layer)
                  IN  /\ summary_by_layer[j].beta.values =
                            [i \in DOMAIN bests |-> bests[i].beta]
                      /\ summary_by_layer[j].recall.values =
                            [i \in DOMAIN bests |-> bests[i].recall[k]]
            /\ \A i, j \in DOMAIN summary_by_layer :
                  summary_by_layer[i].layer = summary_by_layer[j].layer => i = j

\* C10: a RelationResult computed by the sweep has 0 trials if the relation
\* has <= n_train_samples samples and n_trials trials otherwise, is saved
\* and appended either way; each trial has one LayerResult per h_layers
\* entry, in order, each with one BetaResult per betas entry, in order.
C10_ResultShape ==
    \A j \in DOMAIN dataset :
        Computed(j) =>
            LET R == relation_results[j]
            IN  /\ Len(R.trials) = (IF Few(j) THEN 0 ELSE n_trials)
                /\ Name(j) \in DOMAIN store
                /\ Name(j) \in DOMAIN store => store[Name(j)] = R
                /\ \A t \in DOMAIN R.trials :
                      /\ Len(R.trials[t].layers) = Len(h_layers)
                      /\ \A l \in DOMAIN R.trials[t].layers :
                            /\ R.trials[t].layers[l].layer = h_layers[l]
                            /\ Len(R.trials[t].layers[l].result.betas) = Len(betas)
                            /\ \A b \in DOMAIN R.trials[t].layers[l].result.betas :
                                  R.trials[t].layers[l].result.betas[b].beta = betas[b]

C10_Witness ==
    /\ pc = "done"
    /\ run = 1
    /\ Len(dataset) = 2
    /\ Computed(1)
    /\ Computed(2)
    /\ ~ Few(1)
    /\ Few(2)
    /\ n_trials = 2
    /\ Len(relation_results[1].trials) = 2
    /\ Len(relation_results[1].trials[2].layers) = MaxLayers
    /\ Len(relation_results[1].trials[2].layers[MaxLayers].result.betas) = 2
    /\ relation_results[2].trials = <<>>
    /\ store[Name(2)].trials = <<>>

\* the batches range(0, len(rows), size) cuts, each through the model
RECURSIVE BatchesFrom(_, _, _)
BatchesFrom(rows, i, size) ==
    IF i < Len(rows)
    THEN << Tail(Forward(Slice(rows, i, size))) >> \o BatchesFrom(rows, NextStart(i, size), size)
    ELSE <<>>

\* _precompute_hs as a whole: the mapping it returns for a batch size
PrecomputeHs(subjs, side, size) ==
    LET ps == [i \in DOMAIN subjs |-> Prompt(subjs[i])]
        hs == Cat(BatchesFrom(Tokenize(ps, side), 0, size))
    IN  [s \in { subjs[i] : i \in DOMAIN subjs } |->
            LET i == CHOOSE x \in DOMAIN subjs :
                        subjs[x] = s /\ \A y \in DOMAIN subjs : subjs[y] = s => y <= x
                h_index == FindTokenRange(s, PadBefore(ps, side, i))[2] - 1
            IN  [l \in DOMAIN hs |-> hs[l][i][h_index + 1]]]

\* the position (1-based) of the last token of the subject in row i
LastSubjectToken(i) ==
    CHOOSE p \in DOMAIN input_ids[i] :
        /\ input_ids[i][p] = 10 + subjects[i]
        /\ \A q \in DOMAIN input_ids[i] : input_ids[i][q] = 10 + subjects[i] => q <= p

\* C7: whatever the batch size, the concatenated hidden states hold every
\* prompt row once and in input order, the entry cached for the subject at
\* position i is row i's hidden state at the subject's last token in every
\* layer, and the mapping returned is the one batch_size = 1 gives.
C7_BatchSizeInvariant ==
    /\ hpc \in {"index", "done"} =>
          /\ Len(hidden_states) = NumLayers
          /\ \A l \in DOMAIN hidden_states :
                /\ Len(hidden_states[l]) = Len(subjects)
                /\ \A i \in DOMAIN hidden_states[l] :
                      hidden_states[l][i] =
                          [p \in DOMAIN input_ids[i] |-> << l, input_ids[i], p >>]
    /\ hpc = "done" =>
          /\ DOMAIN hs_by_subj = { subjects[i] : i \in DOMAIN subjects }
          /\ \A i \in DOMAIN subjects :
                hs_by_subj[subjects[i]] =
                    [l \in 1..NumLayers |-> << l, input_ids[i], LastSubjectToken(i) >>]
          /\ hs_by_subj = PrecomputeHs(subjects, padding_side, 1)

C7_Witness ==
    /\ hpc = "done"
    /\ Len(subjects) = 3
    /\ batch_size = 2
    /\ Len(batched_hidden_states) = 2
    /\ subjects[1] # subjects[3]
    /\ Len(input_ids[1]) > Len(Prompt(subjects[1]))

====
